---- MODULE Spec2Model ----
(***************************************************************************)
(* FormBuilder (ESP32 HTML form builder): the request scanner, the query   *)
(* decoder, the submission dispatcher and the field registry of            *)
(* src/FormBuilder.cpp as a state machine.                                 *)
(*                                                                         *)
(* A String is a sequence of bytes (0..255).  Indices of the String        *)
(* library are zero-based, as in the source; TLA+ sequences are one-based, *)
(* so character i of the source is s[i + 1].                               *)
(***************************************************************************)
EXTENDS Integers, Sequences, FiniteSets, TLC

(***************************************************************************)
(* Text literals: the printable ASCII characters by code.                  *)
(***************************************************************************)
PrintableLo ==
  <<" ", "!", "\"", "#", "$", "%", "&", "'", "(", ")", "*", "+", ",", "-", ".", "/",
    "0", "1", "2", "3", "4", "5", "6", "7", "8", "9", ":", ";", "<", "=", ">", "?", "@",
    "A", "B", "C", "D", "E", "F", "G", "H", "I", "J", "K", "L", "M",
    "N", "O", "P", "Q", "R", "S", "T", "U", "V", "W", "X", "Y", "Z",
    "[", "\\", "]", "^", "_">>

PrintableHi ==
  <<"a", "b", "c", "d", "e", "f", "g", "h", "i", "j", "k", "l", "m",
    "n", "o", "p", "q", "r", "s", "t", "u", "v", "w", "x", "y", "z",
    "{", "|", "}", "~">>

\* The byte of a one-character literal (" " is 32, "a" is 97).
Ord(c) ==
  IF \E i \in 1..Len(PrintableLo) : PrintableLo[i] = c
  THEN 31 + (CHOOSE i \in 1..Len(PrintableLo) : PrintableLo[i] = c)
  ELSE 96 + (CHOOSE i \in 1..Len(PrintableHi) : PrintableHi[i] = c)

\* The String of a tuple of one-character literals.
Str(t) == [i \in 1..Len(t) |-> Ord(t[i])]

CR == <<13>>

(***************************************************************************)
(* The Arduino String operations the source calls.                         *)
(***************************************************************************)
\* isspace(): space, \t, \n, \v, \f, \r.
IsSpace(c) == c \in {32, 9, 10, 11, 12, 13}

RECURSIVE TrimLeft(_)
TrimLeft(s) ==
  IF s # <<>> /\ IsSpace(Head(s)) THEN TrimLeft(Tail(s)) ELSE s

RECURSIVE TrimRight(_)
TrimRight(s) ==
  IF s # <<>> /\ IsSpace(s[Len(s)]) THEN TrimRight(SubSeq(s, 1, Len(s) - 1)) ELSE s

\* String::trim(): isspace() characters removed at both ends.
Trim(s) == TrimRight(TrimLeft(s))

\* String::charAt(i): the byte at i, 0 when i is not an index of s.
CharAt(s, i) == IF i >= 0 /\ i < Len(s) THEN s[i + 1] ELSE 0

\* String::indexOf(char, from): from is unsigned, so a negative from is past
\* the end; -1 when absent.
IndexOf(s, c, from) ==
  IF from < 0 \/ from >= Len(s) THEN -1
  ELSE IF \E i \in from..(Len(s) - 1) : s[i + 1] = c
       THEN CHOOSE i \in from..(Len(s) - 1) :
              /\ s[i + 1] = c
              /\ \A j \in from..(i - 1) : s[j + 1] # c
       ELSE -1

\* Whether t occurs in s at index i.
OccursAt(s, t, i) ==
  /\ i + Len(t) <= Len(s)
  /\ \A k \in 1..Len(t) : s[i + k] = t[k]

\* String::indexOf(String, from).
IndexOfStr(s, t, from) ==
  IF from < 0 \/ from >= Len(s) THEN -1
  ELSE IF \E i \in from..(Len(s) - 1) : OccursAt(s, t, i)
       THEN CHOOSE i \in from..(Len(s) - 1) :
              /\ OccursAt(s, t, i)
              /\ \A j \in from..(i - 1) : ~OccursAt(s, t, j)
       ELSE -1

\* long and int are 32 bits on the ESP32.
LONG_MAX == 2147483647

\* An int passed as an unsigned int index: a negative one is past the end of
\* every String.
Unsigned(x) == IF x < 0 THEN LONG_MAX ELSE x

\* String::substring(left, right): bytes left..right-1 (both unsigned); the
\* ends are swapped when left > right, right is clipped to the length, and a
\* left at or past the end gives the empty String.
Substring(s, left, right) ==
  LET l == Unsigned(left)
      r == Unsigned(right)
      lo == IF l > r THEN r ELSE l
      hi0 == IF l > r THEN l ELSE r
      hi == IF hi0 > Len(s) THEN Len(s) ELSE hi0
  IN IF lo >= Len(s) THEN <<>> ELSE SubSeq(s, lo + 1, hi)

\* String::substring(left): to the end.
SubstringFrom(s, left) == Substring(s, left, Len(s))

\* String::startsWith(prefix).
StartsWith(s, prefix) == Len(s) >= Len(prefix) /\ OccursAt(s, prefix, 0)

\* c_str(): what a C function sees of a String, the bytes before the first 0.
CStr(s) ==
  IF \E i \in 1..Len(s) : s[i] = 0
  THEN SubSeq(s, 1, (CHOOSE i \in 1..Len(s) : s[i] = 0 /\ \A j \in 1..(i - 1) : s[j] # 0) - 1)
  ELSE s

\* String::operator==(const char*): strcmp() of the two C strings.
Equals(s, lit) == CStr(s) = lit

(***************************************************************************)
(* strtol(s, NULL, 16) and String(int).                                    *)
(***************************************************************************)
ChPlus == Ord("+")
ChMinus == Ord("-")
ChPercent == Ord("%")
ChHash == Ord("#")
ChEquals == Ord("=")
ChQuestion == Ord("?")
ChSpace == Ord(" ")
ChComma == Ord(",")
ChZero == Ord("0")
ChNine == Ord("9")
ChLowerA == Ord("a")
ChLowerF == Ord("f")
ChLowerX == Ord("x")
ChLowerZ == Ord("z")
ChUpperA == Ord("A")
ChUpperF == Ord("F")
ChUpperX == Ord("X")

\* The value of a hexadecimal digit, -1 for any other byte.
HexVal(c) ==
  IF c >= ChZero /\ c <= ChNine THEN c - ChZero
  ELSE IF c >= ChLowerA /\ c <= ChLowerF THEN c - ChLowerA + 10
  ELSE IF c >= ChUpperA /\ c <= ChUpperF THEN c - ChUpperA + 10
  ELSE -1

\* The magnitude of the leading hexadecimal digits of s, -1 once it is
\* above LONG_MAX.
RECURSIVE HexMagnitude(_, _)
HexMagnitude(s, acc) ==
  IF s = <<>> \/ HexVal(Head(s)) = -1 THEN acc
  ELSE LET d == HexVal(Head(s))
       IN HexMagnitude(Tail(s),
                       IF acc = -1 \/ acc > (LONG_MAX - d) \div 16 THEN -1
                       ELSE acc * 16 + d)

\* strtol(s, NULL, 16): leading white space, an optional sign, an optional
\* 0x or 0X, then the hexadecimal digits; 0 when there are none; LONG_MAX or
\* LONG_MIN when out of range.
Strtol16(str) ==
  LET s0 == TrimLeft(CStr(str))
      neg == s0 # <<>> /\ Head(s0) = ChMinus
      s1 == IF s0 # <<>> /\ Head(s0) \in {ChMinus, ChPlus} THEN Tail(s0) ELSE s0
      s2 == IF Len(s1) >= 2 /\ s1[1] = ChZero /\ s1[2] \in {ChLowerX, ChUpperX}
            THEN SubSeq(s1, 3, Len(s1)) ELSE s1
      m == HexMagnitude(s2, 0)
  IN IF neg THEN (IF m = -1 THEN -LONG_MAX - 1 ELSE -m)
     ELSE IF m = -1 THEN LONG_MAX ELSE m

RECURSIVE DecimalDigits(_)
DecimalDigits(n) ==
  IF n < 10 THEN <<ChZero + n>>
  ELSE Append(DecimalDigits(n \div 10), ChZero + (n % 10))

\* String(int): the decimal text of n.
StringOfInt(n) ==
  IF n < 0
  THEN LET last == (10 - (n % 10)) % 10
           rest == -((n + last) \div 10)
       IN <<ChMinus>> \o (IF rest = 0 THEN <<>> ELSE DecimalDigits(rest))
          \o <<ChZero + last>>
  ELSE DecimalDigits(n)

(***************************************************************************)
(* FormBuilder::urlDecode.                                                 *)
(***************************************************************************)
\* HasTwoMore with the bound off by one: an escape that ends the input is
\* not decoded.
HasTwoMore_OffByOne(i, len) == i + 3 < len

\* The guard of the %XX branch at index i of an input of len bytes: both
\* hexadecimal characters are in the input.
HasTwoMore(i, len) == i + 2 < len

\* The loop of urlDecode from index i on.  past records whether charAt was
\* asked for a byte that is not in the input.
RECURSIVE urlDecodeLoop(_, _, _, _)
urlDecodeLoop(input, i, decoded, past) ==
  LET len == Len(input)
      c == CharAt(input, i)
  IN IF ~(i < len) THEN [decoded |-> decoded, past |-> past]
     ELSE IF c = ChPlus
       THEN urlDecodeLoop(input, i + 1, Append(decoded, ChSpace), past)
     ELSE IF c = ChPercent /\ HasTwoMore(i, len)
       THEN LET temp == <<ChZero, ChLowerX, CharAt(input, i + 1), CharAt(input, i + 2)>>
            IN urlDecodeLoop(input, i + 3,
                             Append(decoded, Strtol16(temp) % 256),
                             past \/ i + 1 >= len \/ i + 2 >= len)
     ELSE urlDecodeLoop(input, i + 1, Append(decoded, c), past)

urlDecode(input) == urlDecodeLoop(input, 0, <<>>, FALSE).decoded

(***************************************************************************)
(* The query decoder and the dispatcher loop of getParameters.             *)
(***************************************************************************)
START_FIELD_TAG == 10

MAX_FIELD_OPTIONS == 20

\* The submission marker of the request line scanner.
Marker == Str(<<"G", "E", "T", " ", "/", "a", "j", "a", "x", "_", "i", "n", "p", "u", "t", "s">>)

sep == Str(<<"_", "_", "S", "E", "P", "_", "_">>)

sepLen == Len(sep)

SentinelSpace == Str(<<"%", "2", "0">>)

SentinelNone == Str(<<"(", "N", "o", "n", "e", ")">>)

\* NormalizeSentinel without the (None) rule.
NormalizeSentinel_SpaceOnly(value) ==
  IF Equals(value, SentinelSpace) THEN <<>> ELSE value

\* The two sentinel values become the empty String.
NormalizeSentinel(value) ==
  LET v == IF Equals(value, SentinelSpace) THEN <<>> ELSE value
  IN IF Equals(v, SentinelNone) THEN <<>> ELSE v

\* ConvertColor parsing the value with its #, not what follows it.
ConvertColor_WithHash(value) ==
  IF StartsWith(value, <<ChHash>>) THEN StringOfInt(Strtol16(value)) ELSE value

\* A value that starts with # becomes the decimal text of the hexadecimal
\* integer after the #.
ConvertColor(value) ==
  IF StartsWith(value, <<ChHash>>)
  THEN LET hexValue == SubstringFrom(value, 1)
           colorInt == Strtol16(hexValue)
       IN StringOfInt(colorInt)
  ELSE value

\* DecodeValue reading the chunk with its key.
DecodeValue_WholeParam(param, equalSign) ==
  ConvertColor(NormalizeSentinel(Trim(urlDecode(param))))

\* The value the callback is given for a chunk param whose first = is at
\* equalSign.
DecodeValue(param, equalSign) ==
  LET value == SubstringFrom(param, equalSign + 1)
  IN ConvertColor(NormalizeSentinel(Trim(urlDecode(value))))

\* The condition of the dispatcher's while loop.
MoreParams(queryString, pos, fieldIndex, numberFields) ==
  pos < Len(queryString) /\ fieldIndex <= numberFields

\* OrdinalAfterSkip with the skipped chunk taking an ordinal.
OrdinalAfterSkip_Consumes(fieldIndex) == fieldIndex + 1

\* The field ordinal after a chunk without = has been skipped.
OrdinalAfterSkip(fieldIndex) == fieldIndex

\* The dispatcher loop from pos on: the callback invocations it makes, as
\* <<fieldIndex, value>> pairs, after those of calls.
RECURSIVE ParamLoop(_, _, _, _, _, _)
ParamLoop(queryString, pos, fieldIndex, numberFields, callback, calls) ==
  IF ~MoreParams(queryString, pos, fieldIndex, numberFields) THEN calls
  ELSE LET found == IndexOfStr(queryString, sep, pos)
           nextSep == IF found = -1 THEN Len(queryString) ELSE found
           param == Substring(queryString, pos, nextSep)
           newPos == nextSep + sepLen
           equalSign == IndexOf(param, ChEquals, 0)
       IN IF equalSign = -1
          THEN ParamLoop(queryString, newPos, OrdinalAfterSkip(fieldIndex),
                         numberFields, callback, calls)
          ELSE ParamLoop(queryString, newPos, fieldIndex + 1, numberFields, callback,
                         IF callback
                         THEN Append(calls, <<fieldIndex, DecodeValue(param, equalSign)>>)
                         ELSE calls)

\* The index of the ? of a submission line and of the space that ends the
\* query string, -1 for one that is absent.
QueryStart(requestLine) == IndexOf(requestLine, ChQuestion, 0)

QueryEnd(requestLine) == IndexOf(requestLine, ChSpace, QueryStart(requestLine))

\* Malformed that also aborts a query string without any =.
Malformed_NoParameter(requestLine) ==
  \/ QueryStart(requestLine) = -1
  \/ QueryEnd(requestLine) = -1
  \/ IndexOf(Substring(requestLine, QueryStart(requestLine) + 1, QueryEnd(requestLine)),
             ChEquals, 0) = -1

\* Malformed without the test of the space.
Malformed_QuestionOnly(requestLine) == QueryStart(requestLine) = -1

\* The test that aborts the submission.
Malformed(requestLine) == QueryStart(requestLine) = -1 \/ QueryEnd(requestLine) = -1

QueryString(requestLine) ==
  Substring(requestLine, QueryStart(requestLine) + 1, QueryEnd(requestLine))

\* ScanLines reading on past an empty line.
RECURSIVE ScanLines_PastBlank(_, _)
ScanLines_PastBlank(lines, i) ==
  IF i > Len(lines) THEN [end |-> "nodata", requestLine |-> <<>>]
  ELSE LET requestLine == Trim(lines[i])
       IN IF StartsWith(requestLine, Marker)
          THEN [end |-> "submission", requestLine |-> requestLine]
          ELSE ScanLines_PastBlank(lines, i + 1)

\* ScanLines taking the end of the data for the end of the headers.
RECURSIVE ScanLines_EndIsBlank(_, _)
ScanLines_EndIsBlank(lines, i) ==
  IF i > Len(lines) THEN [end |-> "headersDone", requestLine |-> <<>>]
  ELSE LET requestLine == Trim(lines[i])
       IN IF Len(requestLine) = 0 THEN [end |-> "headersDone", requestLine |-> <<>>]
          ELSE IF StartsWith(requestLine, Marker)
            THEN [end |-> "submission", requestLine |-> requestLine]
          ELSE ScanLines_EndIsBlank(lines, i + 1)

\* The scanner loop over the lines the connection delivers, from line i on:
\* how it ends, and with which (trimmed) request line.
RECURSIVE ScanLines(_, _)
ScanLines(lines, i) ==
  IF i > Len(lines) THEN [end |-> "nodata", requestLine |-> <<>>]
  ELSE LET requestLine == Trim(lines[i])
       IN IF Len(requestLine) = 0 THEN [end |-> "headersDone", requestLine |-> <<>>]
          ELSE IF StartsWith(requestLine, Marker)
            THEN [end |-> "submission", requestLine |-> requestLine]
          ELSE ScanLines(lines, i + 1)

(***************************************************************************)
(* The field renderer.  What is written to the connection is a sequence    *)
(* of items: el names the line or element, id is the number of the element *)
(* id ("x" + id), label a prompt, heading or title, value and text the     *)
(* value attribute and the text of a control or option.                    *)
(***************************************************************************)
Item(el, id, label, value, text, selected) ==
  [el |-> el, id |-> id, label |-> label, value |-> value, text |-> text,
   selected |-> selected]

Fixed(el) == Item(el, 0, "", <<>>, <<>>, FALSE)

\* clearSettings(): the field declaration before an add* call fills it.  Every
\* add* call that reads _settings clears it first, so it is a value of the
\* call.  The range and color members are not cleared; they are written
\* before they are read.
clearSettings ==
  [fieldPrompt |-> "", textDefault |-> <<>>, numDefault |-> 0, heading |-> "",
   fieldOptions |-> [x \in 1..MAX_FIELD_OPTIONS |-> <<>>],
   returnPrompts |-> FALSE, isRangeDropdown |-> FALSE, isColorPicker |-> FALSE,
   rangeMin |-> 0, rangeMax |-> 0, rangeDefault |-> 0, colorDefault |-> 0]

\* The option parsing loop of addDropDown.
RECURSIVE ParseOptions(_, _, _, _, _)
ParseOptions(options, optionCount, lastComma, nextComma, fieldOptions) ==
  IF ~(nextComma # -1 /\ optionCount < MAX_FIELD_OPTIONS) THEN fieldOptions
  ELSE LET comma == IndexOf(options, ChComma, lastComma + 1)
           option == Trim(IF comma = -1
                          THEN SubstringFrom(options, lastComma + 1)
                          ELSE Substring(options, lastComma + 1, comma))
       IN ParseOptions(options, optionCount + 1, comma, comma,
                       [fieldOptions EXCEPT ![optionCount + 1] = option])

\* numDefault is a byte.
ToByte(n) == n % 256

\* The <option> lines of an enumerated dropdown, from ordinal option on.
RECURSIVE EnumOptions(_, _)
EnumOptions(settings, option) ==
  IF ~(option < MAX_FIELD_OPTIONS) THEN <<>>
  ELSE IF Equals(settings.fieldOptions[option + 1], <<>>) THEN <<>>
  ELSE LET optText == settings.fieldOptions[option + 1]
           optVal == IF settings.returnPrompts THEN optText ELSE StringOfInt(option)
       IN <<Item("option", 0, "", optVal, optText, option = settings.numDefault)>>
          \o EnumOptions(settings, option + 1)

\* The <option> lines of a range dropdown, from value option on.
RECURSIVE RangeOptions(_, _)
RangeOptions(settings, option) ==
  IF ~(option <= settings.rangeMax) THEN <<>>
  ELSE <<Item("option", 0, "", StringOfInt(option), StringOfInt(option),
              option = settings.rangeDefault)>>
       \o RangeOptions(settings, option + 1)

\* The optional heading line of a field.
HeadingOut(settings) ==
  IF settings.heading # "" THEN <<Item("h2", 0, settings.heading, <<>>, <<>>, FALSE)>>
  ELSE <<>>

\* render*: what a field with a prompt writes, with element id fieldTag.
renderDropdown(settings, fieldTag) ==
  HeadingOut(settings)
  \o <<Item("label", 0, settings.fieldPrompt, <<>>, <<>>, FALSE),
       Item("select", fieldTag, "", <<>>, <<>>, FALSE)>>
  \o (IF settings.isRangeDropdown
      THEN RangeOptions(settings, settings.rangeMin)
      ELSE EnumOptions(settings, 0))
  \o <<Fixed("/select")>>

renderTextInput(settings, fieldTag) ==
  HeadingOut(settings)
  \o <<Item("label", 0, settings.fieldPrompt, <<>>, <<>>, FALSE),
       Item("input:text", fieldTag, "", settings.textDefault, <<>>, FALSE)>>

renderColorPicker(settings, fieldTag) ==
  HeadingOut(settings)
  \o <<Item("label", 0, settings.fieldPrompt, <<>>, <<>>, FALSE),
       Item("input:color", fieldTag, "", settings.textDefault, <<>>, FALSE)>>

renderSubheading(text) == <<Item("h2.subheading", 0, text, <<>>, <<>>, FALSE)>>

HexChar(d) == IF d < 10 THEN ChZero + d ELSE ChLowerA + (d - 10)

RECURSIVE HexDigits(_)
HexDigits(n) ==
  IF n < 16 THEN <<HexChar(n)>> ELSE Append(HexDigits(n \div 16), HexChar(n % 16))

\* String(n, HEX) of an int: the hexadecimal digits of n as an unsigned int
\* (a negative n is n + 2^32: its top digit is 8 or more, the other seven
\* are the low 28 bits).
StringOfIntHex(n) ==
  IF n >= 0 THEN HexDigits(n)
  ELSE LET m == (n + LONG_MAX) + 1
           low == m % 268435456
       IN <<HexChar(8 + (m \div 268435456))>>
          \o [i \in 1..7 |-> HexChar((low \div (16 ^ (7 - i))) % 16)]

\* String::toUpperCase().
ToUpperCase(s) ==
  [i \in 1..Len(s) |-> IF s[i] >= ChLowerA /\ s[i] <= ChLowerZ THEN s[i] - 32 ELSE s[i]]

\* ColorText without the zero padding.
ColorText_NoPad(defaultColor) == ToUpperCase(<<ChHash>> \o StringOfIntHex(defaultColor))

\* The default value text of a color picker.
ColorText(defaultColor) ==
  LET pad(limit) == IF defaultColor < limit THEN <<ChZero>> ELSE <<>>
  IN ToUpperCase(<<ChHash>> \o pad(1048576) \o pad(65536) \o pad(4096) \o pad(256)
                 \o pad(16) \o StringOfIntHex(defaultColor))

\* htmlStart(): the response head and the page head.
htmlStartOut(pageTitle) ==
  <<Fixed("HTTP/1.1 200 OK"), Fixed("Content-type:text/html"), Fixed(""),
    Fixed("<!DOCTYPE html>"), Fixed("<style>"),
    Item("title", 0, pageTitle, <<>>, <<>>, FALSE),
    Item("h1#header", 0, pageTitle, <<>>, <<>>, FALSE),
    Fixed("<div id=inputs>")>>

\* ScriptFields reading the ids from START_FIELD_TAG on, not from the one
\* after it.
RECURSIVE ScriptFields_FromBase(_, _, _)
ScriptFields_FromBase(fieldIndex, tempFieldTag, numberFields) ==
  IF ~(fieldIndex <= numberFields) THEN <<>>
  ELSE <<Item("script:field", tempFieldTag, "", <<>>, <<>>, fieldIndex > 1)>>
       \o ScriptFields_FromBase(fieldIndex + 1, tempFieldTag + 1, numberFields)

\* The getElementById lines of SendText(), from fieldIndex on: the id each
\* reads and whether sep is written before it.
RECURSIVE ScriptFields(_, _, _)
ScriptFields(fieldIndex, tempFieldTag, numberFields) ==
  IF ~(fieldIndex <= numberFields) THEN <<>>
  ELSE <<Item("script:field", tempFieldTag + 1, "", <<>>, <<>>, fieldIndex > 1)>>
       \o ScriptFields(fieldIndex + 1, tempFieldTag + 1, numberFields)

\* htmlEnd(): the save button, the submission script and the closing markup.
htmlEndOut(numberFields) ==
  <<Fixed("button.save-button"), Fixed("<script>")>>
  \o ScriptFields(1, START_FIELD_TAG, numberFields)
  \o <<Fixed("script:send"), Fixed("</script>"), Fixed("</html>")>>

\* The response to a submission.
SavedOut ==
  <<Fixed("HTTP/1.1 200 OK"), Fixed("Content-Type: text/plain"), Fixed(""),
    Fixed("Saved; restarting...")>>

\* One event for each line written and for each callback invocation.
Wrote(items) == [i \in 1..Len(items) |-> "write"]

Called(calls) == [i \in 1..Len(calls) |-> "callback"]

\* SubmissionEvents with the response written before the dispatcher loop.
SubmissionEvents_RespondsFirst(calls) ==
  Wrote(SavedOut) \o Called(calls) \o <<"stop", "delay", "restart">>

\* What a submission does after the query string is cut out: the callback
\* invocations of the dispatcher loop, the response, stop(), delay(500) and
\* ESP.restart().
SubmissionEvents(calls) ==
  Called(calls) \o Wrote(SavedOut) \o <<"stop", "delay", "restart">>

(***************************************************************************)
(* Bounds and inputs.                                                      *)
(***************************************************************************)
\* add* calls the form-definition callback makes in one render.
MaxCalls == 3

\* Chunks of a submitted query string.
MaxChunks == 3

\* Fields of a submission in the wire format of the page script.
MaxWire == 2

RECURSIVE Join(_)
Join(chunks) ==
  IF chunks = <<>> THEN <<>>
  ELSE IF Len(chunks) = 1 THEN chunks[1]
  ELSE chunks[1] \o sep \o Join(Tail(chunks))

\* All tuples over S of length 0..n.
TuplesUpTo(S, n) == UNION {[1..k -> S] : k \in 0..n}

HttpVersion == Str(<<" ", "H", "T", "T", "P", "/", "1", ".", "1">>)

PageLine == Str(<<"G", "E", "T", " ", "/">>) \o HttpVersion \o CR

HostLine == Str(<<"H", "o", "s", "t", ":", " ", "e", "s", "p">>) \o CR

\* Chunks of a query string: empty, without =, with one = and with two.
GenChunks ==
  {<<>>,
   Str(<<"j", "u", "n", "k">>),
   Str(<<"k", "=", "a", "b">>),
   Str(<<"x", "1", "1", "=", "%", "4", "1", "+">>),
   Str(<<"z", "=", "a", "=", "b">>)}

GenQueries == {Join(t) : t \in TuplesUpTo(GenChunks, MaxChunks)}

\* Field values as encodeURIComponent leaves them in the query string.
WireVals ==
  {Str(<<"a", "b">>),
   Str(<<"a", "%", "2", "0", "b">>),
   Str(<<"%", "2", "0">>),
   Str(<<"(", "N", "o", "n", "e", ")">>),
   Str(<<"%", "2", "3", "F", "F", "0", "0", "0", "0">>),
   Str(<<"c", "%", "3", "D">>)}

NoCache == Str(<<"&", "n", "o", "c", "a", "c", "h", "e", "=", "0", ".", "5">>)

\* The query string SendText() builds from the values vals of fields
\* x11, x12, ...: netText without its leading ?, then nocache.
WireQuery(vals) ==
  Join([i \in 1..Len(vals) |->
          <<Ord("x")>> \o StringOfInt(START_FIELD_TAG + i) \o <<ChEquals>> \o vals[i]])
  \o NoCache

\* The request line of a query string.
SubmitLine(query) == Marker \o <<ChQuestion>> \o query \o HttpVersion

WireLines == {SubmitLine(WireQuery(vals)) : vals \in TuplesUpTo(WireVals, MaxWire)}

\* Submission lines without a ?, or without a space after it.
MalformedLines ==
  {Marker,
   Marker \o HttpVersion,
   Marker \o Str(<<"?", "k", "=", "a", "b">>),
   Marker \o Str(<<" ", "x", "?", "k", "=", "a", "b">>)}

SubmissionLines == {SubmitLine(q) : q \in GenQueries} \cup WireLines \cup MalformedLines

\* What a connection delivers to one scan, line by line (each without its
\* \n): nothing, headers cut short, headers ended by an empty line, and
\* submissions, alone or after another line.
Requests ==
  {<<>>, <<PageLine>>, <<PageLine, HostLine>>}
  \cup {<<CR>>, <<PageLine, HostLine, CR>>,
        <<PageLine, <<>>, SubmitLine(Str(<<"k", "=", "a", "b">>))>>}
  \cup {<<l>> : l \in SubmissionLines}
  \cup {<<HostLine, l \o CR>> : l \in MalformedLines \cup {SubmitLine(Str(<<"k", "=", "a", "b">>))}}

Titles == {"Device Configuration"}

Prompts == {"", "Device Name"}

(***************************************************************************)
(* The state.                                                              *)
(***************************************************************************)
VARIABLES
  _server,               \* whether begin() has set a server
  _callback,             \* whether a value callback is set
  _formBuilderCallback,  \* whether a form-definition callback is set
  _fieldTag,
  _numberFields,
  _pageTitle,
  pc,        \* "loop": between handleClient calls; "form": in the
             \* form-definition callback of a render; "returned": handleClient
             \* has returned; "restart": ESP.restart() was called
  accepted,  \* this handleClient call: whether accept() gave a connection
  request,   \* ... the lines the connection delivered
  before,    \* ... the registry when the call began
  calls,     \* ... the value callback invocations, <<fieldIndex, value>>
  fbCalls,   \* ... the form-definition callback invocations
  added,     \* ... the add* calls of the form-definition callback
  out,       \* ... what was written to the connection
  stopped,   \* ... whether the connection was closed
  events,    \* ... what the call did, in the order it did it: "callback",
             \* "write" (one line), "formBuilder", "stop", "delay", "restart"
  everRendered,  \* whether a field was rendered since construction
  arg,       \* the input of a function checked on its own (urlDecode, the
             \* value decoding of one chunk)
  res        \* ... and its result

vars ==
  <<_server, _callback, _formBuilderCallback, _fieldTag, _numberFields, _pageTitle,
    pc, accepted, request, before, calls, fbCalls, added, out, stopped, events,
    everRendered, arg, res>>

registry == <<_fieldTag, _numberFields, _pageTitle>>

config == <<_server, _callback, _formBuilderCallback>>

history == <<accepted, request, before, calls, fbCalls, added, out, stopped, events>>

pure == <<arg, res>>

NoHistory ==
  /\ accepted = FALSE
  /\ request = <<>>
  /\ before = <<START_FIELD_TAG, 0, "Default Title">>
  /\ calls = <<>>
  /\ fbCalls = 0
  /\ added = <<>>
  /\ out = <<>>
  /\ stopped = FALSE
  /\ events = <<>>

\* A handleClient call begins with nothing recorded.
ClearHistory ==
  /\ accepted' = FALSE
  /\ request' = <<>>
  /\ before' = <<START_FIELD_TAG, 0, "Default Title">>
  /\ calls' = <<>>
  /\ fbCalls' = 0
  /\ added' = <<>>
  /\ out' = <<>>
  /\ stopped' = FALSE
  /\ events' = <<>>

\* The constructor leaving a field count of one.
Init_OneField ==
  /\ _server = FALSE
  /\ _callback = FALSE
  /\ _formBuilderCallback = FALSE
  /\ _fieldTag = START_FIELD_TAG
  /\ _numberFields = 1
  /\ _pageTitle = "Default Title"
  /\ pc = "loop"
  /\ NoHistory
  /\ everRendered = FALSE
  /\ arg = <<>>
  /\ res = <<>>

\* FormBuilder::FormBuilder().
Init ==
  /\ _server = FALSE
  /\ _callback = FALSE
  /\ _formBuilderCallback = FALSE
  /\ _fieldTag = START_FIELD_TAG
  /\ _numberFields = 0
  /\ _pageTitle = "Default Title"
  /\ pc = "loop"
  /\ NoHistory
  /\ everRendered = FALSE
  /\ arg = <<>>
  /\ res = <<>>

(***************************************************************************)
(* Configuration.                                                          *)
(***************************************************************************)
begin ==
  /\ pc = "loop"
  /\ _server' = TRUE
  /\ UNCHANGED <<pure, everRendered, _callback, _formBuilderCallback, registry, pc, history>>

setCallback ==
  /\ pc = "loop"
  /\ _callback' = TRUE
  /\ UNCHANGED <<pure, everRendered, _server, _formBuilderCallback, registry, pc, history>>

setFormBuilder ==
  /\ pc = "loop"
  /\ _formBuilderCallback' = TRUE
  /\ UNCHANGED <<pure, everRendered, _server, _callback, registry, pc, history>>

setTitle ==
  /\ pc = "loop"
  /\ \E title \in Titles : _pageTitle' = title
  /\ UNCHANGED <<pure, everRendered, config, _fieldTag, _numberFields, pc, history>>

(***************************************************************************)
(* handleClient() and getParameters().                                     *)
(***************************************************************************)
\* handleClient can be called and has a server.
Serving == pc = "loop" /\ _server

\* The start of a handleClient call that accepted a connection.
Accept(lines) ==
  /\ accepted' = TRUE
  /\ request' = lines
  /\ before' = registry

\* No server is set: handleClient returns at once.
handleClientNoServer ==
  /\ pc = "loop"
  /\ ~_server
  /\ pc' = "returned"
  /\ before' = registry
  /\ UNCHANGED <<pure, everRendered, config, registry, accepted, request, calls, fbCalls, added, out, stopped, events>>

\* accept() gives no connection.
handleClientNoClient ==
  /\ Serving
  /\ pc' = "returned"
  /\ before' = registry
  /\ UNCHANGED <<pure, everRendered, config, registry, accepted, request, calls, fbCalls, added, out, stopped, events>>

\* The scan runs out of data before an empty line or a submission line.
handleClientNoData ==
  /\ Serving
  /\ \E lines \in Requests :
      /\ Accept(lines)
      /\ ScanLines(lines, 1).end = "nodata"
      /\ pc' = "returned"
      /\ UNCHANGED <<pure, everRendered, config, registry, calls, fbCalls, added, out, stopped, events>>

\* A submission line without its ? or the space after it: the loop is left,
\* and handledRequest keeps the page from being rendered.
handleClientMalformed ==
  /\ Serving
  /\ \E lines \in Requests :
      LET scan == ScanLines(lines, 1)
      IN /\ Accept(lines)
         /\ scan.end = "submission"
         /\ Malformed(scan.requestLine)
         /\ pc' = "returned"
         /\ UNCHANGED <<pure, everRendered, config, registry, calls, fbCalls, added, out, stopped, events>>

\* A submission: the dispatcher loop, the response, stop() and ESP.restart().
handleClientSubmission ==
  /\ Serving
  /\ \E lines \in Requests :
      LET scan == ScanLines(lines, 1)
      IN /\ Accept(lines)
         /\ scan.end = "submission"
         /\ ~Malformed(scan.requestLine)
         /\ calls' = ParamLoop(QueryString(scan.requestLine), 0, 1, _numberFields,
                               _callback, <<>>)
         /\ out' = SavedOut
         /\ stopped' = TRUE
         /\ events' = SubmissionEvents(calls')
         /\ pc' = "restart"
         /\ UNCHANGED <<pure, everRendered, config, registry, fbCalls, added>>

\* The headers end without a submission and a form-definition callback is
\* set: htmlStart(), then the callback runs.
handleClientRender ==
  /\ Serving
  /\ \E lines \in Requests :
      /\ Accept(lines)
      /\ ScanLines(lines, 1).end = "headersDone"
      /\ _formBuilderCallback
      /\ _fieldTag' = START_FIELD_TAG
      /\ _numberFields' = 0
      /\ out' = htmlStartOut(_pageTitle)
      /\ fbCalls' = fbCalls + 1
      /\ events' = Wrote(htmlStartOut(_pageTitle)) \o <<"formBuilder">>
      /\ pc' = "form"
      /\ UNCHANGED <<pure, everRendered, config, _pageTitle, calls, added, stopped>>

\* The same with no form-definition callback: htmlStart(), htmlEnd(), stop().
handleClientRenderEmpty ==
  /\ Serving
  /\ \E lines \in Requests :
      /\ Accept(lines)
      /\ ScanLines(lines, 1).end = "headersDone"
      /\ ~_formBuilderCallback
      /\ _fieldTag' = START_FIELD_TAG
      /\ _numberFields' = 0
      /\ out' = htmlStartOut(_pageTitle) \o htmlEndOut(0)
      /\ stopped' = TRUE
      /\ events' = Wrote(htmlStartOut(_pageTitle) \o htmlEndOut(0)) \o <<"stop">>
      /\ pc' = "returned"
      /\ UNCHANGED <<pure, everRendered, config, _pageTitle, calls, fbCalls, added>>

(***************************************************************************)
(* The add* calls of the form-definition callback.                         *)
(***************************************************************************)
\* SkipsField without the guard.
SkipsField_Never(prompt) == FALSE

\* The guard of render*: a field with an empty prompt is skipped.
SkipsField(prompt) == prompt = ""

\* An add* call of a field: nothing when the prompt is empty, else the next
\* tag is taken and the field is written.
AddField(prompt, rendered) ==
  /\ pc = "form"
  /\ Len(added) < MaxCalls
  /\ added' = Append(added, [field |-> TRUE, prompt |-> prompt])
  /\ IF SkipsField(prompt)
     THEN UNCHANGED <<_fieldTag, _numberFields, out, events, everRendered>>
     ELSE /\ _fieldTag' = _fieldTag + 1
          /\ _numberFields' = _numberFields + 1
          /\ out' = out \o rendered
          /\ events' = events \o Wrote(rendered)
          /\ everRendered' = TRUE
  /\ UNCHANGED <<pure, config, _pageTitle, pc, accepted, request, before, calls, fbCalls, stopped>>

addSubheading ==
  \E text \in {"Network Settings"} :
    /\ pc = "form"
    /\ Len(added) < MaxCalls
    /\ added' = Append(added, [field |-> FALSE, prompt |-> text])
    /\ out' = out \o renderSubheading(text)
    /\ events' = events \o Wrote(renderSubheading(text))
    /\ UNCHANGED <<pure, everRendered, config, registry, pc, accepted, request, before, calls, fbCalls, stopped>>

addText ==
  \E prompt \in Prompts, defaultValue \in {Str(<<"E", "S", "P">>)} :
    LET settings == [clearSettings EXCEPT !.fieldPrompt = prompt,
                                          !.textDefault = defaultValue]
    IN AddField(prompt, renderTextInput(settings, _fieldTag + 1))

addDropDown ==
  \E prompt \in Prompts,
     options \in {Str(<<"S", "t", "a", ",", " ", "A", "P">>)},
     defaultIndex \in {0},
     returnText \in {TRUE} :
    LET settings == [clearSettings EXCEPT
                       !.fieldPrompt = prompt,
                       !.fieldOptions = ParseOptions(options, 0, -1, 0, @),
                       !.numDefault = ToByte(defaultIndex),
                       !.isRangeDropdown = FALSE,
                       !.returnPrompts = returnText]
    IN AddField(prompt, renderDropdown(settings, _fieldTag + 1))

addDropDownRange ==
  \E prompt \in Prompts, minVal \in {0}, maxVal \in {2}, defaultValue \in {1} :
    LET settings == [clearSettings EXCEPT
                       !.fieldPrompt = prompt,
                       !.rangeMin = minVal,
                       !.rangeMax = maxVal,
                       !.rangeDefault = defaultValue,
                       !.isRangeDropdown = TRUE,
                       !.returnPrompts = FALSE]
    IN AddField(prompt, renderDropdown(settings, _fieldTag + 1))

addColorPicker ==
  \E prompt \in Prompts, defaultColor \in {2450411} :
    LET settings == [clearSettings EXCEPT
                       !.fieldPrompt = prompt,
                       !.colorDefault = defaultColor,
                       !.textDefault = ColorText(defaultColor),
                       !.isColorPicker = TRUE]
    IN AddField(prompt, renderColorPicker(settings, _fieldTag + 1))

\* The form-definition callback returns: htmlEnd() and stop().
formBuilderReturn ==
  /\ pc = "form"
  /\ out' = out \o htmlEndOut(_numberFields)
  /\ stopped' = TRUE
  /\ events' = events \o Wrote(htmlEndOut(_numberFields)) \o <<"stop">>
  /\ pc' = "returned"
  /\ UNCHANGED <<pure, everRendered, config, registry, accepted, request, before, calls, fbCalls, added>>

\* The application's loop() comes round to the next handleClient call.
loop ==
  /\ pc = "returned"
  /\ pc' = "loop"
  /\ ClearHistory
  /\ UNCHANGED <<pure, everRendered, config, registry>>

\* The device restarts: the sketch constructs its FormBuilder again.
restart ==
  /\ pc = "restart"
  /\ _server' = FALSE
  /\ _callback' = FALSE
  /\ _formBuilderCallback' = FALSE
  /\ _fieldTag' = START_FIELD_TAG
  /\ _numberFields' = 0
  /\ _pageTitle' = "Default Title"
  /\ pc' = "loop"
  /\ ClearHistory
  /\ everRendered' = FALSE
  /\ UNCHANGED pure

Next ==
  \/ begin
  \/ setCallback
  \/ setFormBuilder
  \/ setTitle
  \/ handleClientNoServer
  \/ handleClientNoClient
  \/ handleClientNoData
  \/ handleClientMalformed
  \/ handleClientSubmission
  \/ handleClientRender
  \/ handleClientRenderEmpty
  \/ addSubheading
  \/ addText
  \/ addDropDown
  \/ addDropDownRange
  \/ addColorPicker
  \/ formBuilderReturn
  \/ loop
  \/ restart

Spec == Init /\ [][Next]_vars

(***************************************************************************)
(* urlDecode on its own: an input is a percent-escape %XX of a byte        *)
(* between a piece before and a piece after, each piece given with the     *)
(* text it stands for.                                                     *)
(***************************************************************************)
HexUpper ==
  Str(<<"0", "1", "2", "3", "4", "5", "6", "7", "8", "9", "A", "B", "C", "D", "E", "F">>)

HexLower ==
  Str(<<"0", "1", "2", "3", "4", "5", "6", "7", "8", "9", "a", "b", "c", "d", "e", "f">>)

\* The percent-escape of byte b.
PercentEscape(b, upper) ==
  LET digits == IF upper THEN HexUpper ELSE HexLower
  IN <<ChPercent, digits[(b \div 16) + 1], digits[(b % 16) + 1]>>

Piece(enc, dec) == [enc |-> enc, dec |-> dec]

PiecesBefore ==
  {Piece(<<>>, <<>>),
   Piece(Str(<<"a">>), Str(<<"a">>)),
   Piece(Str(<<"+">>), Str(<<" ">>)),
   Piece(Str(<<"a", "%", "2", "B">>), Str(<<"a", "+">>))}

\* The last two end in a % with fewer than two characters after it.
PiecesAfter ==
  {Piece(<<>>, <<>>),
   Piece(Str(<<"z">>), Str(<<"z">>)),
   Piece(Str(<<"+">>), Str(<<" ">>)),
   Piece(Str(<<"%", "7", "a">>), Str(<<"z">>)),
   Piece(Str(<<"z", "%">>), Str(<<"z", "%">>)),
   Piece(Str(<<"%", "4">>), Str(<<"%", "4">>))}

DecodeInputs ==
  [pre : PiecesBefore, byte : 0..255, upper : BOOLEAN, post : PiecesAfter]

DecodeInput(a) == a.pre.enc \o PercentEscape(a.byte, a.upper) \o a.post.enc

\* The state of the form builder in the specifications of single functions.
Idle ==
  /\ _server = FALSE
  /\ _callback = FALSE
  /\ _formBuilderCallback = FALSE
  /\ _fieldTag = START_FIELD_TAG
  /\ _numberFields = 0
  /\ _pageTitle = "Default Title"
  /\ pc = "call"
  /\ NoHistory
  /\ everRendered = FALSE

InitDecode ==
  /\ Idle
  /\ arg \in DecodeInputs
  /\ res = [done |-> FALSE, decoded |-> <<>>, past |-> FALSE]

\* urlDecode(input) is called.
callUrlDecode ==
  /\ ~res.done
  /\ LET r == urlDecodeLoop(DecodeInput(arg), 0, <<>>, FALSE)
     IN res' = [done |-> TRUE, decoded |-> r.decoded, past |-> r.past]
  /\ UNCHANGED <<arg, everRendered, config, registry, pc, history>>

SpecDecode == InitDecode /\ [][callUrlDecode]_vars

(***************************************************************************)
(* The decoding of one submitted value on its own: the dispatcher loop on  *)
(* a query string of one chunk, with one field recorded and a callback     *)
(* set.                                                                    *)
(***************************************************************************)
\* Hexadecimal digits of a submitted color.
MaxHexLen == 6

HexDigitVals == {0, 9, 15}

HashText == Str(<<"#">>)

HashEscaped == Str(<<"%", "2", "3">>)

\* Colors: # (as it is, or escaped as encodeURIComponent leaves it) and the
\* digits, in either letter case.
ColorInputs ==
  {[kind |-> "color", digits |-> d, upper |-> u,
    raw |-> h \o [i \in 1..Len(d) |-> (IF u THEN HexUpper ELSE HexLower)[d[i] + 1]]] :
     d \in UNION {[1..k -> HexDigitVals] : k \in 1..MaxHexLen},
     u \in BOOLEAN,
     h \in {HashText, HashEscaped}}

OtherRaws ==
  {<<>>,
   Str(<<"a", "b">>),
   Str(<<"%", "2", "0">>),
   Str(<<"(", "N", "o", "n", "e", ")">>),
   Str(<<"a", "%", "2", "0", "b">>),
   Str(<<"%", "2", "5", "2", "0">>),
   Str(<<"+", "(", "N", "o", "n", "e", ")", "%", "2", "0">>),
   Str(<<"x", "(", "N", "o", "n", "e", ")">>),
   Str(<<"(", "N", "o", "n", "e", ")", "x">>),
   Str(<<"#">>),
   Str(<<"#", "z", "z">>),
   Str(<<"#", "#", "F", "F">>),
   Str(<<"%", "2", "3", "-", "1">>),
   Str(<<"+", "#", "0", "x", "1", "f", "+">>),
   Str(<<"a", "#", "1">>)}

ValueInputs ==
  ColorInputs \cup {[kind |-> "other", digits |-> <<>>, upper |-> FALSE, raw |-> r] : r \in OtherRaws}

InitValue ==
  /\ Idle
  /\ arg \in ValueInputs
  /\ res = [done |-> FALSE, calls |-> <<>>]

\* The dispatcher loop runs on the chunk x11=<raw>.
deliverValue ==
  /\ ~res.done
  /\ LET queryString == Str(<<"x", "1", "1", "=">>) \o arg.raw
     IN res' = [done |-> TRUE, calls |-> ParamLoop(queryString, 0, 1, 1, TRUE, <<>>)]
  /\ UNCHANGED <<arg, everRendered, config, registry, pc, history>>

SpecValue == InitValue /\ [][deliverValue]_vars

(***************************************************************************)
(* What the claims speak of, stated on the request itself.                 *)
(***************************************************************************)
IsBlankLine(line) == \A i \in 1..Len(line) : IsSpace(line[i])

IsMarkerLine(line) == StartsWith(TrimLeft(line), Marker)

\* Line i is the first line that is empty or a submission line.
FirstDecisive(req, i) ==
  /\ i \in 1..Len(req)
  /\ IsBlankLine(req[i]) \/ IsMarkerLine(req[i])
  /\ \A j \in 1..(i - 1) : ~IsBlankLine(req[j]) /\ ~IsMarkerLine(req[j])

\* The request reaches the submission path, the page render, or neither.
ReachesSubmission(req) == \E i \in 1..Len(req) : FirstDecisive(req, i) /\ IsMarkerLine(req[i])

ReachesBlank(req) == \E i \in 1..Len(req) : FirstDecisive(req, i) /\ IsBlankLine(req[i])

ReachesNeither(req) == \A i \in 1..Len(req) : ~IsBlankLine(req[i]) /\ ~IsMarkerLine(req[i])

\* The submission line of a request that reaches the submission path.
SubmissionLineOf(req) ==
  Trim(req[CHOOSE i \in 1..Len(req) : FirstDecisive(req, i) /\ IsMarkerLine(req[i])])

\* Position i holds the first ? of the line and position j a space after it.
Delimiters(line, i, j) ==
  /\ i \in 1..Len(line) /\ j \in 1..Len(line)
  /\ line[i] = ChQuestion
  /\ \A k \in 1..(i - 1) : line[k] # ChQuestion
  /\ j > i
  /\ line[j] = ChSpace
  /\ \A k \in (i + 1)..(j - 1) : line[k] # ChSpace

\* The line has a ? and a space after it.
WellDelimited(line) ==
  \E i \in 1..Len(line) :
    line[i] = ChQuestion /\ \E j \in (i + 1)..Len(line) : line[j] = ChSpace

\* The text between the two.
QueryOf(line) ==
  LET d == CHOOSE d \in (1..Len(line)) \X (1..Len(line)) : Delimiters(line, d[1], d[2])
  IN SubSeq(line, d[1] + 1, d[2] - 1)

\* The chunks of a query string: the pieces between occurrences of the
\* separator, read from the left.
RECURSIVE ChunksOf(_)
ChunksOf(q) ==
  IF \E i \in 0..(Len(q) - sepLen) : OccursAt(q, sep, i)
  THEN LET i == CHOOSE i \in 0..(Len(q) - sepLen) :
                  OccursAt(q, sep, i) /\ \A j \in 0..(i - 1) : ~OccursAt(q, sep, j)
       IN <<SubSeq(q, 1, i)>> \o ChunksOf(SubSeq(q, i + sepLen + 1, Len(q)))
  ELSE <<q>>

HasEquals(chunk) == \E i \in 1..Len(chunk) : chunk[i] = ChEquals

\* The text of a chunk after its first =.
RawValueOf(chunk) ==
  SubSeq(chunk, (CHOOSE i \in 1..Len(chunk) :
                   chunk[i] = ChEquals /\ \A j \in 1..(i - 1) : chunk[j] # ChEquals) + 1,
         Len(chunk))

\* The value a chunk with an = carries: its text after the first =, decoded,
\* trimmed, normalized and converted.
ValueOf(chunk) == ConvertColor(NormalizeSentinel(Trim(urlDecode(RawValueOf(chunk)))))

Min(a, b) == IF a < b THEN a ELSE b

\* A handleClient call has ended (it returned, or it restarted the device).
Ended == pc \in {"returned", "restart"}

\* The ids of the controls written, in order.
IsControl(item) == item.el \in {"select", "input:text", "input:color"}

ControlIds(items) == LET c == SelectSeq(items, IsControl) IN [i \in 1..Len(c) |-> c[i].id]

(***************************************************************************)
(* C1.  A submission in the wire format of the page script, with as many   *)
(* fields as were rendered: the callback is invoked once per field and the *)
(* i-th invocation receives the percent-decoded, trimmed value of field i, *)
(* the last field included; nocache is part of no value.                   *)
(***************************************************************************)
PlainVals ==
  {Str(<<"a", "b">>), Str(<<"a", "%", "2", "0", "b">>), Str(<<"c", "%", "3", "D">>)}

C1_WireValuesDelivered ==
  (pc = "restart" /\ _callback)
  => \A vals \in TuplesUpTo(PlainVals, MaxWire) :
       (Len(vals) = _numberFields /\ request = <<SubmitLine(WireQuery(vals))>>)
       => calls = [i \in 1..Len(vals) |-> <<i, Trim(urlDecode(vals[i]))>>]

(***************************************************************************)
(* C2.  A well-delimited submission with k chunks that contain an =,       *)
(* processed with field count N: the callback is invoked min(k, N) times,  *)
(* with ordinals 1..min(k, N) in order, the i-th with the value of the     *)
(* i-th chunk that contains an =; chunks without = take no ordinal.        *)
(***************************************************************************)
C2_OrdinalsInChunkOrder ==
  (pc = "restart" /\ _callback)
  => LET chunks == ChunksOf(QueryOf(SubmissionLineOf(request)))
         withEq == SelectSeq(chunks, HasEquals)
         m == Min(Len(withEq), _numberFields)
     IN calls = [i \in 1..m |-> <<i, ValueOf(withEq[i])>>]

\* A chunk without = comes before one with, and there are more chunks with =
\* than fields.
C2_Witness ==
  /\ pc = "restart" /\ _callback
  /\ _numberFields >= 1
  /\ Len(calls) = _numberFields
  /\ LET chunks == ChunksOf(QueryOf(SubmissionLineOf(request)))
     IN /\ Len(SelectSeq(chunks, HasEquals)) > _numberFields
        /\ ~HasEquals(chunks[1])
        /\ chunks[1] # <<>>

(***************************************************************************)
(* C3.  In every render the N-th field with a non-empty prompt has tag     *)
(* 10 + N: the tags ascend by one from 11; addSubheading and add* calls    *)
(* with an empty prompt take no tag and leave the field count alone;       *)
(* whatever renders came before.                                           *)
(***************************************************************************)
Rendering == pc = "form" \/ (pc = "returned" /\ stopped)

IsFieldCall(a) == a.field /\ a.prompt # ""

C3_TagsFollowFieldOrder ==
  Rendering
  => LET n == Len(SelectSeq(added, IsFieldCall))
     IN /\ _numberFields = n
        /\ _fieldTag = START_FIELD_TAG + n
        /\ ControlIds(out) = [i \in 1..n |-> START_FIELD_TAG + i]

\* The second of two fields, after a subheading or an empty prompt, in a
\* render that follows a render with fields.
C3_Witness ==
  /\ pc = "form"
  /\ before[2] >= 1
  /\ _numberFields = 2
  /\ Len(added) = 3
  /\ ~IsFieldCall(added[2])
  /\ ControlIds(out) = <<11, 12>>

(***************************************************************************)
(* C4.  As claimed: every request that reaches the submission path ends    *)
(* with the connection closed and a restart.                               *)
(***************************************************************************)
C4_EverySubmissionRestarts ==
  (Ended /\ accepted /\ ReachesSubmission(request))
  => (stopped /\ pc = "restart")

(***************************************************************************)
(* C4, amended.  Every request that reaches the submission path with a     *)
(* line that has a ? and a space after it ends with the connection closed  *)
(* and a restart, however many of its parameters were valid.               *)
(***************************************************************************)
C4_WellDelimitedRestarts ==
  (Ended /\ accepted /\ ReachesSubmission(request)
     /\ WellDelimited(SubmissionLineOf(request)))
  => (stopped /\ pc = "restart")

\* A submission none of whose chunks has an =, with fields rendered and a
\* callback set.
C4_Witness ==
  /\ pc = "restart" /\ stopped
  /\ _callback /\ _numberFields >= 1
  /\ calls = <<>>
  /\ QueryOf(SubmissionLineOf(request)) # <<>>

(***************************************************************************)
(* C5.  A submission line without a ?, or without a space after it: no     *)
(* callback, nothing written, no page rendered, the connection left open,  *)
(* tag counter, field count and title unchanged.                           *)
(***************************************************************************)
C5_MalformedAbortsSilently ==
  (accepted /\ ReachesSubmission(request) /\ ~WellDelimited(SubmissionLineOf(request)))
  => /\ pc = "returned"
     /\ calls = <<>>
     /\ out = <<>>
     /\ fbCalls = 0
     /\ added = <<>>
     /\ ~stopped
     /\ registry = before

\* A line with a ? and a parameter but no space after it, with fields
\* rendered, both callbacks and a title set.
C5_Witness ==
  /\ pc = "returned" /\ accepted
  /\ ReachesSubmission(request)
  /\ ~WellDelimited(SubmissionLineOf(request))
  /\ HasEquals(SubmissionLineOf(request))
  /\ _callback /\ _formBuilderCallback
  /\ _numberFields >= 1
  /\ _pageTitle # "Default Title"

(***************************************************************************)
(* C6.  A request whose headers end before any submission line: exactly    *)
(* one page render.  Tag counter and field count start again, the HTML     *)
(* response head is written, the form-definition callback runs once if     *)
(* set, the closing markup is written and the connection closed; no value  *)
(* callback, no restart.                                                   *)
(***************************************************************************)
IsStatusLine(item) == item.el = "HTTP/1.1 200 OK"

C6_HeadersEndRendersOnce ==
  (accepted /\ ReachesBlank(request))
  => /\ pc \in {"form", "returned"}
     /\ calls = <<>>
     /\ fbCalls = (IF _formBuilderCallback THEN 1 ELSE 0)
     /\ Len(SelectSeq(out, IsStatusLine)) = 1
     /\ SubSeq(out, 1, Len(htmlStartOut(_pageTitle))) = htmlStartOut(_pageTitle)
     /\ _numberFields = Len(ControlIds(out))
     /\ _fieldTag = START_FIELD_TAG + _numberFields
     /\ pc = "returned"
        => /\ stopped
           /\ SubSeq(out, Len(out) - Len(htmlEndOut(_numberFields)) + 1, Len(out))
                = htmlEndOut(_numberFields)

\* A finished render of no fields after a render with fields, on a request
\* that has a submission line after the empty line.
C6_Witness ==
  /\ pc = "returned" /\ accepted /\ stopped
  /\ ReachesBlank(request)
  /\ \E i \in 1..Len(request) : IsMarkerLine(request[i])
  /\ before[2] >= 1
  /\ _numberFields = 0
  /\ fbCalls = 1
  /\ _callback

(***************************************************************************)
(* C7.  The data ends before a submission line or an empty line is read    *)
(* (also when there is no data at all): nothing is written, no callback,   *)
(* no restart, tag counter and field count unchanged.                      *)
(***************************************************************************)
C7_NoDataNoAction ==
  (accepted /\ ReachesNeither(request))
  => /\ pc = "returned"
     /\ out = <<>>
     /\ calls = <<>>
     /\ fbCalls = 0
     /\ ~stopped
     /\ registry = before

\* Header lines and no more, with fields rendered and both callbacks set.
C7_Witness ==
  /\ pc = "returned" /\ accepted
  /\ request # <<>>
  /\ ReachesNeither(request)
  /\ _callback /\ _formBuilderCallback
  /\ _numberFields >= 1

(***************************************************************************)
(* C8.  urlDecode is a left inverse of percent-encoding: the escape %XX of *)
(* any byte, wherever it stands in the input (also as its last three       *)
(* characters), decodes to that one byte at its place; + decodes to a      *)
(* space; a % with fewer than two characters after it is kept and no byte  *)
(* outside the input is read.                                              *)
(***************************************************************************)
C8_DecodeInvertsEscape ==
  res.done
  => /\ res.decoded = arg.pre.dec \o <<arg.byte>> \o arg.post.dec
     /\ ~res.past

\* The escape of the highest byte as the last three characters, after a +.
C8_Witness ==
  /\ res.done
  /\ arg.byte = 255
  /\ arg.post.enc = <<>>
  /\ arg.pre.enc = <<ChPlus>>
  /\ res.decoded = <<ChSpace, 255>>

(***************************************************************************)
(* C9.  A value that begins with # once decoded, trimmed and normalized is *)
(* delivered as the decimal text of the hexadecimal integer after the #,   *)
(* in either letter case; no delivered value begins with #.                *)
(***************************************************************************)
IsDecimalText(v) ==
  /\ v # <<>>
  /\ \A i \in 1..Len(v) : v[i] >= ChZero /\ v[i] <= ChNine
  /\ Len(v) > 1 => v[1] # ChZero

RECURSIVE DecimalNumber(_)
DecimalNumber(v) ==
  IF v = <<>> THEN 0 ELSE 10 * DecimalNumber(SubSeq(v, 1, Len(v) - 1)) + (v[Len(v)] - ChZero)

RECURSIVE HexNumber(_)
HexNumber(d) ==
  IF d = <<>> THEN 0 ELSE 16 * HexNumber(SubSeq(d, 1, Len(d) - 1)) + d[Len(d)]

C9_ColorsArriveDecimal ==
  res.done
  => /\ Len(res.calls) = 1
     /\ res.calls[1][1] = 1
     /\ LET v == res.calls[1][2]
        IN /\ v # <<>> => v[1] # ChHash
           /\ arg.kind = "color"
              => IsDecimalText(v) /\ DecimalNumber(v) = HexNumber(arg.digits)

\* ff0000 in lower case after an escaped #.
C9_Witness ==
  /\ res.done
  /\ arg.kind = "color"
  /\ arg.digits = <<15, 15, 0, 0, 0, 0>>
  /\ ~arg.upper
  /\ arg.raw[1] = ChPercent
  /\ res.calls = <<<<1, Str(<<"1", "6", "7", "1", "1", "6", "8", "0">>)>>>>

(***************************************************************************)
(* C10.  Sentinel normalization is of the whole trimmed value: the value   *)
(* %20 (sent as it is, or escaped as %2520) is delivered empty, the value  *)
(* (None) is delivered empty, and a%20b is delivered as "a b"; a value     *)
(* that only contains (None) is kept.                                      *)
(***************************************************************************)
C10_SentinelsAreWholeValues ==
  res.done
  => LET v == res.calls[1][2]
     IN /\ arg.raw = Str(<<"%", "2", "0">>) => v = <<>>
        /\ arg.raw = Str(<<"(", "N", "o", "n", "e", ")">>) => v = <<>>
        /\ arg.raw = Str(<<"%", "2", "5", "2", "0">>) => v = <<>>
        /\ arg.raw = Str(<<"a", "%", "2", "0", "b">>) => v = Str(<<"a", " ", "b">>)
        /\ arg.raw = Str(<<"x", "(", "N", "o", "n", "e", ")">>) => v = arg.raw
        /\ arg.raw = Str(<<"(", "N", "o", "n", "e", ")", "x">>) => v = arg.raw

\* (None) has been delivered as the empty String.
C10_Witness ==
  /\ res.done
  /\ arg.raw = Str(<<"(", "N", "o", "n", "e", ")">>)
  /\ res.calls = <<<<1, <<>>>>>>

(***************************************************************************)
(* addColorPicker on its own: one call in a render, with a color of six    *)
(* hexadecimal digits.                                                     *)
(***************************************************************************)
ColorDigitVals == {0, 1, 10, 15}

\* The integer of six hexadecimal digits.
ColorOf(d) ==
  d[1] * 1048576 + d[2] * 65536 + d[3] * 4096 + d[4] * 256 + d[5] * 16 + d[6]

\* The README's default color among them.
ColorVals == {ColorOf(d) : d \in [1..6 -> ColorDigitVals]} \cup {2450411}

ColorCalls == [prompt : Prompts, defaultColor : ColorVals]

InitColor ==
  /\ Idle
  /\ arg \in ColorCalls
  /\ res = [done |-> FALSE, out |-> <<>>]

\* addColorPicker(prompt, defaultColor) is called.
callAddColorPicker ==
  /\ ~res.done
  /\ LET settings == [clearSettings EXCEPT
                        !.fieldPrompt = arg.prompt,
                        !.colorDefault = arg.defaultColor,
                        !.textDefault = ColorText(arg.defaultColor),
                        !.isColorPicker = TRUE]
     IN IF SkipsField(arg.prompt)
        THEN /\ res' = [done |-> TRUE, out |-> <<>>]
             /\ UNCHANGED <<_fieldTag, _numberFields, everRendered>>
        ELSE /\ res' = [done |-> TRUE, out |-> renderColorPicker(settings, _fieldTag + 1)]
             /\ _fieldTag' = _fieldTag + 1
             /\ _numberFields' = _numberFields + 1
             /\ everRendered' = TRUE
  /\ UNCHANGED <<arg, config, _pageTitle, pc, history>>

SpecColor == InitColor /\ [][callAddColorPicker]_vars

(***************************************************************************)
(* C11.  A 24-bit color given to addColorPicker with a non-empty prompt is *)
(* rendered as the default value # and exactly six upper-case hexadecimal  *)
(* digits whose number is the color, leading zeros kept.                   *)
(***************************************************************************)
IsColorInput(item) == item.el = "input:color"

IsUpperHex(c) == \E d \in 1..16 : HexUpper[d] = c

UpperHexVal(c) == (CHOOSE d \in 1..16 : HexUpper[d] = c) - 1

RECURSIVE UpperHexNumber(_)
UpperHexNumber(t) ==
  IF t = <<>> THEN 0
  ELSE 16 * UpperHexNumber(SubSeq(t, 1, Len(t) - 1)) + UpperHexVal(t[Len(t)])

C11_ColorDefaultSixDigits ==
  (res.done /\ arg.prompt # "")
  => LET inputs == SelectSeq(res.out, IsColorInput)
     IN /\ Len(inputs) = 1
        /\ LET v == inputs[1].value
           IN /\ Len(v) = 7
              /\ v[1] = ChHash
              /\ \A i \in 2..7 : IsUpperHex(v[i])
              /\ UpperHexNumber(SubSeq(v, 2, 7)) = arg.defaultColor

\* 0x00001 has been rendered as #000001.
C11_Witness ==
  /\ res.done
  /\ arg.prompt # ""
  /\ arg.defaultColor = 1
  /\ SelectSeq(res.out, IsColorInput)[1].value = Str(<<"#", "0", "0", "0", "0", "0", "1">>)

(***************************************************************************)
(* addDropDown on its own: one call in a render.                           *)
(***************************************************************************)
\* Pieces of a short options string.
MaxPieces == 3

PieceTexts == {<<>>, Str(<<"a">>), Str(<<" ", "b", " ">>)}

RECURSIVE CommaJoin(_)
CommaJoin(pieces) ==
  IF Len(pieces) = 0 THEN <<>>
  ELSE IF Len(pieces) = 1 THEN pieces[1]
  ELSE pieces[1] \o <<ChComma>> \o CommaJoin(Tail(pieces))

\* Lists of one piece less than, as many as and one more than the options a
\* field holds: 0,1,2,...
LongLists ==
  {CommaJoin([i \in 1..n |-> StringOfInt(i - 1)]) :
     n \in {MAX_FIELD_OPTIONS - 1, MAX_FIELD_OPTIONS, MAX_FIELD_OPTIONS + 1}}

OptionStrings ==
  {CommaJoin(t) : t \in UNION {[1..k -> PieceTexts] : k \in 1..MaxPieces}} \cup LongLists

DefaultIndexes ==
  {-1, 0, 1, 2, MAX_FIELD_OPTIONS - 1, MAX_FIELD_OPTIONS, 255, 256, 257}

DropDownCalls ==
  [prompt : Prompts, options : OptionStrings, defaultIndex : DefaultIndexes,
   returnText : BOOLEAN]

InitDropDown ==
  /\ Idle
  /\ arg \in DropDownCalls
  /\ res = [done |-> FALSE, out |-> <<>>]

\* addDropDown(prompt, options, defaultIndex, returnText) is called.
callAddDropDown ==
  /\ ~res.done
  /\ LET settings == [clearSettings EXCEPT
                        !.fieldPrompt = arg.prompt,
                        !.fieldOptions = ParseOptions(arg.options, 0, -1, 0, @),
                        !.numDefault = ToByte(arg.defaultIndex),
                        !.isRangeDropdown = FALSE,
                        !.returnPrompts = arg.returnText]
     IN IF SkipsField(arg.prompt)
        THEN /\ res' = [done |-> TRUE, out |-> <<>>]
             /\ UNCHANGED <<_fieldTag, _numberFields, everRendered>>
        ELSE /\ res' = [done |-> TRUE, out |-> renderDropdown(settings, _fieldTag + 1)]
             /\ _fieldTag' = _fieldTag + 1
             /\ _numberFields' = _numberFields + 1
             /\ everRendered' = TRUE
  /\ UNCHANGED <<arg, config, _pageTitle, pc, history>>

SpecDropDown == InitDropDown /\ [][callAddDropDown]_vars

(***************************************************************************)
(* C12.  As claimed: the options rendered by addDropDown are the trimmed,  *)
(* non-empty comma-separated pieces of the options string, in order, at    *)
(* most MAX_FIELD_OPTIONS of them; the value of each is its text when      *)
(* returnText is set and its ordinal otherwise; an option is selected if   *)
(* and only if its ordinal is the default index.                           *)
(***************************************************************************)
IsOption(item) == item.el = "option"

\* The pieces between the commas of a string.
RECURSIVE CommaPieces(_)
CommaPieces(t) ==
  IF \E i \in 1..Len(t) : t[i] = ChComma
  THEN LET i == CHOOSE i \in 1..Len(t) : t[i] = ChComma /\ \A j \in 1..(i - 1) : t[j] # ChComma
       IN <<SubSeq(t, 1, i - 1)>> \o CommaPieces(SubSeq(t, i + 1, Len(t)))
  ELSE <<t>>

IsNonEmpty(t) == t # <<>>

\* The trimmed, non-empty pieces, at most MAX_FIELD_OPTIONS of them.
ClaimedOptions(options) ==
  LET pieces == CommaPieces(options)
      kept == SelectSeq([i \in 1..Len(pieces) |-> Trim(pieces[i])], IsNonEmpty)
  IN SubSeq(kept, 1, Min(Len(kept), MAX_FIELD_OPTIONS))

C12_OptionsAreNonEmptyPieces ==
  (res.done /\ arg.prompt # "")
  => LET rendered == SelectSeq(res.out, IsOption)
         claimed == ClaimedOptions(arg.options)
     IN /\ Len(rendered) = Len(claimed)
        /\ \A i \in 1..Len(rendered) :
             /\ rendered[i].text = claimed[i]
             /\ rendered[i].value
                  = (IF arg.returnText THEN claimed[i] ELSE StringOfInt(i - 1))
             /\ rendered[i].selected <=> (i - 1 = arg.defaultIndex)

(***************************************************************************)
(* C13.  A submission whose line has a ? and a space after it runs to its  *)
(* end whatever the query string holds, and in this order: the value       *)
(* callback invocations, the four lines of the plain-text response, the    *)
(* close of the connection, the restart.  No callback comes after the      *)
(* response and no page is rendered in that call.                          *)
(***************************************************************************)
C13_CallbacksResponseCloseRestart ==
  (accepted /\ ReachesSubmission(request) /\ WellDelimited(SubmissionLineOf(request)))
  => /\ pc = "restart"
     /\ out = SavedOut
     /\ fbCalls = 0 /\ added = <<>>
     /\ LET n == Len(calls)
            last == Len(events)
        IN /\ last > n + 5
           /\ \A i \in 1..n : events[i] = "callback"
           /\ \A i \in (n + 1)..(n + 4) : events[i] = "write"
           /\ events[n + 5] = "stop"
           /\ events[last] = "restart"
           /\ \A i \in (n + 1)..last : events[i] \notin {"callback", "formBuilder"}
           /\ \A i \in (n + 6)..(last - 1) : events[i] \notin {"write", "stop", "restart"}

\* A query string of an empty chunk, a chunk without = and a chunk with one,
\* which is delivered.
C13_Witness ==
  /\ pc = "restart" /\ accepted
  /\ Len(calls) = 1
  /\ ReachesSubmission(request)
  /\ LET chunks == ChunksOf(QueryOf(SubmissionLineOf(request)))
     IN /\ Len(chunks) = 3
        /\ chunks[1] = <<>>
        /\ chunks[2] # <<>> /\ ~HasEquals(chunks[2])
        /\ HasEquals(chunks[3])
  /\ events[1] = "callback"

(***************************************************************************)
(* C14.  At the end of every render the submission script reads the        *)
(* element ids of the fields of that render, x11 .. x(10 + field count),   *)
(* each once and in the order of declaration, with the separator written   *)
(* before every one but the first.                                         *)
(***************************************************************************)
IsScriptField(item) == item.el = "script:field"

RenderEnded == pc = "returned" /\ accepted /\ ReachesBlank(request)

C14_ScriptReadsRenderedIds ==
  RenderEnded
  => LET script == SelectSeq(out, IsScriptField)
     IN /\ [i \in 1..Len(script) |-> script[i].id] = ControlIds(out)
        /\ ControlIds(out) = [i \in 1..Len(SelectSeq(added, IsFieldCall)) |-> START_FIELD_TAG + i]
        /\ \A i \in 1..Len(script) : script[i].selected <=> (i > 1)

\* A render of two fields with a call that renders no field between them,
\* after a render with fields.
C14_Witness ==
  /\ RenderEnded
  /\ before[2] >= 1
  /\ Len(added) = 3
  /\ ~IsFieldCall(added[2])
  /\ ControlIds(out) = <<11, 12>>
  /\ Len(SelectSeq(out, IsScriptField)) = 2

(***************************************************************************)
(* Two submissions that differ in the keys of their chunks only, each      *)
(* processed from the same state of the form builder.                      *)
(***************************************************************************)
\* Chunks of the two query strings.
MaxKeyChunks == 2

KeyTexts == {<<>>, Str(<<"x", "1", "1">>), Str(<<"?", "&", "#", "%", "2">>)}

KeyedValues == {Str(<<"a", "b">>), Str(<<"a", "=", "b">>), Str(<<"%", "2", "3", "F", "F">>)}

KeylessChunks == {<<>>, Str(<<"j", "u", "n", "k">>)}

\* A chunk of the pair: without =, the same text in both; with =, key a in the
\* first query string and key b in the second.
PairChunks ==
  {[eq |-> FALSE, text |-> t, a |-> <<>>, b |-> <<>>] : t \in KeylessChunks}
  \cup {[eq |-> TRUE, text |-> v, a |-> ka, b |-> kb] :
          v \in KeyedValues, ka \in KeyTexts, kb \in KeyTexts}

KeyPairs == UNION {[1..k -> PairChunks] : k \in 1..MaxKeyChunks}

FirstQuery(p) ==
  Join([i \in 1..Len(p) |-> IF p[i].eq THEN p[i].a \o <<ChEquals>> \o p[i].text ELSE p[i].text])

SecondQuery(p) ==
  Join([i \in 1..Len(p) |-> IF p[i].eq THEN p[i].b \o <<ChEquals>> \o p[i].text ELSE p[i].text])

\* getParameters on the one request line of a submission with this query
\* string: what it does and how it ends.
getParametersOn(query) ==
  LET scan == ScanLines(<<SubmitLine(query)>>, 1)
  IN IF scan.end # "submission" \/ Malformed(scan.requestLine)
     THEN [calls |-> <<>>, out |-> <<>>, events |-> <<>>, pc |-> "returned",
           registry |-> registry]
     ELSE LET c == ParamLoop(QueryString(scan.requestLine), 0, 1, _numberFields,
                             _callback, <<>>)
          IN [calls |-> c, out |-> SavedOut, events |-> SubmissionEvents(c),
              pc |-> "restart", registry |-> registry]

\* A form builder with a value callback after a render of n fields.
InitKeys ==
  /\ _server = TRUE
  /\ _callback = TRUE
  /\ _formBuilderCallback = TRUE
  /\ \E n \in 0..MaxKeyChunks :
       /\ _fieldTag = START_FIELD_TAG + n
       /\ _numberFields = n
       /\ everRendered = (n > 0)
  /\ _pageTitle = "Default Title"
  /\ pc = "call"
  /\ NoHistory
  /\ arg \in KeyPairs
  /\ res = [done |-> FALSE, first |-> <<>>, second |-> <<>>]

\* Each of the two submissions is processed from this state.
submitBoth ==
  /\ ~res.done
  /\ res' = [done |-> TRUE,
             first |-> getParametersOn(FirstQuery(arg)),
             second |-> getParametersOn(SecondQuery(arg))]
  /\ UNCHANGED <<arg, everRendered, config, registry, pc, history>>

SpecKeys == InitKeys /\ [][submitBoth]_vars

(***************************************************************************)
(* C15.  Two submissions whose query strings differ only in the text       *)
(* before the first = of each chunk, processed from the same state, give   *)
(* the same callback invocations (ordinals and values), the same response  *)
(* and the same end state: the keys play no part.                          *)
(***************************************************************************)
C15_KeysPlayNoPart ==
  res.done => res.first = res.second

\* Two chunks delivered, with the keys of the field tags in one query string
\* and other keys in the other.
C15_Witness ==
  /\ res.done
  /\ Len(arg) = 2
  /\ arg[1].eq /\ arg[2].eq
  /\ arg[1].a = Str(<<"x", "1", "1">>) /\ arg[1].b = Str(<<"?", "&", "#", "%", "2">>)
  /\ arg[2].a = Str(<<"x", "1", "1">>) /\ arg[2].b = <<>>
  /\ Len(res.first.calls) = 2
  /\ res.second.calls = res.first.calls

(***************************************************************************)
(* C16.  Value callbacks are delivered only if a render has emitted a      *)
(* field since construction.  Until then the field count is 0, and a       *)
(* submission with a ? and a space after it invokes no value callback,     *)
(* whatever its query string, and still sends the response and restarts.   *)
(***************************************************************************)
C16_NoValuesBeforeAFieldIsRendered ==
  /\ calls # <<>> => everRendered
  /\ ~everRendered
     => /\ _numberFields = 0
        /\ (accepted /\ ReachesSubmission(request)
              /\ WellDelimited(SubmissionLineOf(request)))
           => /\ calls = <<>>
              /\ out = SavedOut
              /\ stopped
              /\ pc = "restart"

\* A submission with a chunk that has an =, with a callback set, and a render
\* without fields but none with a field before it.
C16_Witness ==
  /\ pc = "restart" /\ accepted
  /\ ~everRendered
  /\ _callback
  /\ ReachesSubmission(request)
  /\ \E i \in 1..Len(ChunksOf(QueryOf(SubmissionLineOf(request)))) :
       HasEquals(ChunksOf(QueryOf(SubmissionLineOf(request)))[i])
  /\ calls = <<>>
  /\ out = SavedOut

====
